---- MODULE Spec2Model ----
(***************************************************************************)
(* json-strip-comments: the in-place scanner strip_buf, its helpers, the   *)
(* StripComments reader adapter and strip_comments_in_place                *)
(* (src/src/lib.rs).  Bytes are their ASCII codes; buffer indices are      *)
(* 0-based as in the source, so byte i of a buffer b is b[i + 1].          *)
(***************************************************************************)
EXTENDS Integers, Sequences, FiniteSets, TLC

\* ---------------------------------------------------------------- bytes
QUOTE == 34
BACKSLASH == 92
SLASH == 47
STAR == 42
HASH == 35
COMMA == 44
RBRACKET == 93
RBRACE == 125
LF == 10
CR == 13
SPACE == 32
LETTER == 97
\* the UTF-8 bytes of a two-byte and of a three-byte character
LEAD2 == 195
CONT == 164
LEAD3 == 228
CONT2 == 184
CONT3 == 150

\* ---------------------------------------------------------------- bounds
MaxLen == 3
MaxCommentLen == 4
MaxStringLen == 4
MaxBuf == 4
MaxPlaceLen == 4
MaxPlaceCommentLen == 6
MaxCalls == 2
MaxBothLen == 3
MaxWasmLen == 2
MaxScanLen == 3
MaxChars == 4

\* ---------------------------------------------------------------- enum State
Top == "Top"
InString == "InString"
StringEscape == "StringEscape"
InComment == "InComment"
InBlockComment == "InBlockComment"
MaybeCommentEnd == "MaybeCommentEnd"
InLineComment == "InLineComment"

State == {Top, InString, StringEscape, InComment, InBlockComment,
          MaybeCommentEnd, InLineComment}

\* ---------------------------------------------------------------- helpers
Min(a, b) == IF a < b THEN a ELSE b

\* u8::is_ascii_whitespace: space, tab, line feed, form feed, carriage return
is_ascii_whitespace(c) == c \in {32, 9, 10, 12, 13}

\* fill writing 0 instead of b' '
fill_zero(buf, lo, hi) ==
    [k \in 1..Len(buf) |-> IF lo <= k - 1 /\ k - 1 < hi THEN 0 ELSE buf[k]]

\* buf[lo..hi].fill(b' ') with 0-based, half-open lo..hi
fill(buf, lo, hi) ==
    [k \in 1..Len(buf) |-> IF lo <= k - 1 /\ k - 1 < hi THEN SPACE ELSE buf[k]]

\* memchr::memchr(needle, &buf[from..]): offset of the first needle, -1 for None
memchr(needle, buf, from) ==
    LET hits == {k \in from..(Len(buf) - 1) : buf[k + 1] = needle}
    IN  IF hits = {} THEN -1
        ELSE (CHOOSE k \in hits : \A m \in hits : k <= m) - from

\* is_closing_bracket with the test of the stop byte lost: any significant
\* byte counts as a closing bracket
is_closing_bracket_any(c) == ~is_ascii_whitespace(c)

\* *c == b'}' || *c == b']'
is_closing_bracket(c) == c = RBRACE \/ c = RBRACKET

\* fn top(c: &mut u8) -> State
top(c) ==
    IF c = QUOTE THEN [state |-> InString, c |-> c]
    ELSE IF c = SLASH THEN [state |-> InComment, c |-> SPACE]
    ELSE IF c = HASH THEN [state |-> InLineComment, c |-> SPACE]
    ELSE [state |-> Top, c |-> c]

\* in_string without the backslash arm: an escaped quote closes the string
in_string_no_escape(c) ==
    IF c = QUOTE THEN Top
    ELSE InString

\* fn in_string(c: u8) -> State
in_string(c) ==
    IF c = QUOTE THEN Top
    ELSE IF c = BACKSLASH THEN StringEscape
    ELSE InString

\* in_comment without the `/` arm: "//" is rejected
in_comment_block_only(c) ==
    IF c = STAR THEN [ok |-> TRUE, state |-> InBlockComment, c |-> SPACE]
    ELSE [ok |-> FALSE, state |-> InComment, c |-> c]

\* fn in_comment(c: &mut u8) -> Result<State>
in_comment(c) ==
    IF c = STAR THEN [ok |-> TRUE, state |-> InBlockComment, c |-> SPACE]
    ELSE IF c = SLASH THEN [ok |-> TRUE, state |-> InLineComment, c |-> SPACE]
    ELSE [ok |-> FALSE, state |-> InComment, c |-> c]

\* maybe_comment_end leaving the closing `/` in the buffer
maybe_comment_end_keeps_slash(c) ==
    IF c = SLASH THEN [state |-> Top, c |-> c]
    ELSE IF c = STAR THEN [state |-> MaybeCommentEnd, c |-> SPACE]
    ELSE [state |-> InBlockComment, c |-> SPACE]

\* maybe_comment_end taking a second `*` for comment body: "**/" does not close
maybe_comment_end_one_star(c) ==
    IF c = SLASH THEN [state |-> Top, c |-> SPACE]
    ELSE [state |-> InBlockComment, c |-> SPACE]

\* fn maybe_comment_end(c: &mut u8) -> State
maybe_comment_end(c) ==
    IF c = SLASH THEN [state |-> Top, c |-> SPACE]
    ELSE IF c = STAR THEN [state |-> MaybeCommentEnd, c |-> SPACE]
    ELSE [state |-> InBlockComment, c |-> SPACE]

\* consume_line_comments filling cur..=i: the terminating \n is blanked too
consume_line_comments_inclusive(buf, i) ==
    LET cur == i
        offset == memchr(LF, buf, i)
    IN  IF offset >= 0
        THEN [state |-> Top, i |-> i + offset,
              buf |-> fill(buf, cur, i + offset + 1)]
        ELSE [state |-> InLineComment, i |-> Len(buf) - 1,
              buf |-> fill(buf, cur, Len(buf))]

\* consume_line_comments filling cur..*i after *i = len - 1 when there is no
\* \n: the last byte of the buffer is left
consume_line_comments_short(buf, i) ==
    LET cur == i
        offset == memchr(LF, buf, i)
    IN  IF offset >= 0
        THEN [state |-> Top, i |-> i + offset, buf |-> fill(buf, cur, i + offset)]
        ELSE [state |-> InLineComment, i |-> Len(buf) - 1,
              buf |-> fill(buf, cur, Len(buf) - 1)]

\* fn consume_line_comments(buf: &mut [u8], i: &mut usize) -> State
consume_line_comments(buf, i) ==
    LET cur == i
        offset == memchr(LF, buf, i)
    IN  IF offset >= 0
        THEN [state |-> Top, i |-> i + offset, buf |-> fill(buf, cur, i + offset)]
        ELSE [state |-> InLineComment, i |-> Len(buf) - 1,
              buf |-> fill(buf, cur, Len(buf))]

\* consume_block_comments searching from the byte after the current one
consume_block_comments_from_next(buf, i) ==
    LET cur == i
        offset == memchr(STAR, buf, i + 1)
    IN  IF offset >= 0
        THEN [state |-> MaybeCommentEnd, i |-> i + 1 + offset,
              buf |-> fill(buf, cur, i + 1 + offset + 1)]
        ELSE [state |-> InBlockComment, i |-> Len(buf) - 1,
              buf |-> fill(buf, cur, Len(buf))]

\* fn consume_block_comments(buf: &mut [u8], i: &mut usize) -> State
consume_block_comments(buf, i) ==
    LET cur == i
        offset == memchr(STAR, buf, i)
    IN  IF offset >= 0
        THEN [state |-> MaybeCommentEnd, i |-> i + offset,
              buf |-> fill(buf, cur, i + offset + 1)]
        ELSE [state |-> InBlockComment, i |-> Len(buf) - 1,
              buf |-> fill(buf, cur, Len(buf))]

\* the while loop of consume_comment_whitespace_until_maybe_bracket
RECURSIVE lookahead_while(_, _, _)
lookahead_while(state, buf, i) ==
    IF i >= Len(buf)
    THEN [ok |-> TRUE, val |-> FALSE, state |-> state, buf |-> buf, i |-> i]
    ELSE
      LET c == buf[i + 1] IN
      CASE state = Top ->
             LET t == top(c)
                 b == [buf EXCEPT ![i + 1] = t.c]
             IN  IF is_ascii_whitespace(t.c)
                 THEN lookahead_while(t.state, b, i + 1)
                 ELSE [ok |-> TRUE, val |-> is_closing_bracket(t.c),
                       state |-> t.state, buf |-> b, i |-> i]
        [] state = InString -> lookahead_while(in_string(c), buf, i + 1)
        [] state = StringEscape -> lookahead_while(InString, buf, i + 1)
        [] state = InComment ->
             LET r == in_comment(c) IN
             IF r.ok
             THEN lookahead_while(r.state, [buf EXCEPT ![i + 1] = r.c], i + 1)
             ELSE [ok |-> FALSE, val |-> FALSE, state |-> state, buf |-> buf,
                   i |-> i]
        [] state = InBlockComment ->
             LET r == consume_block_comments(buf, i)
             IN  lookahead_while(r.state, r.buf, r.i + 1)
        [] state = MaybeCommentEnd ->
             LET r == maybe_comment_end(c)
             IN  lookahead_while(r.state, [buf EXCEPT ![i + 1] = r.c], i + 1)
        [] state = InLineComment ->
             LET r == consume_line_comments(buf, i)
             IN  lookahead_while(r.state, r.buf, r.i + 1)

\* fn consume_comment_whitespace_until_maybe_bracket(state, buf, i) -> Result<bool>
consume_comment_whitespace_until_maybe_bracket(state, buf, i) ==
    lookahead_while(state, buf, i + 1)

\* the while loop of strip_buf
RECURSIVE strip_buf_while(_, _, _)
strip_buf_while(state, buf, i) ==
    IF i >= Len(buf)
    THEN [ok |-> TRUE, state |-> state, buf |-> buf]
    ELSE
      LET c == buf[i + 1] IN
      CASE state = Top ->
             LET byte == c
                 cur == i
                 t == top(c)
                 b == [buf EXCEPT ![i + 1] = t.c]
             IN  IF byte = COMMA
                 THEN LET r == consume_comment_whitespace_until_maybe_bracket(
                                   t.state, b, i)
                      IN  IF ~r.ok
                          THEN [ok |-> FALSE, state |-> state, buf |-> r.buf]
                          ELSE strip_buf_while(
                                   r.state,
                                   IF r.val THEN [r.buf EXCEPT ![cur + 1] = SPACE]
                                            ELSE r.buf,
                                   r.i + 1)
                 ELSE strip_buf_while(t.state, b, i + 1)
        [] state = InString -> strip_buf_while(in_string(c), buf, i + 1)
        [] state = StringEscape -> strip_buf_while(InString, buf, i + 1)
        [] state = InComment ->
             LET r == in_comment(c) IN
             IF r.ok
             THEN strip_buf_while(r.state, [buf EXCEPT ![i + 1] = r.c], i + 1)
             ELSE [ok |-> FALSE, state |-> state, buf |-> buf]
        [] state = InBlockComment ->
             LET r == consume_block_comments(buf, i)
             IN  strip_buf_while(r.state, r.buf, r.i + 1)
        [] state = MaybeCommentEnd ->
             LET r == maybe_comment_end(c)
             IN  strip_buf_while(r.state, [buf EXCEPT ![i + 1] = r.c], i + 1)
        [] state = InLineComment ->
             LET r == consume_line_comments(buf, i)
             IN  strip_buf_while(r.state, r.buf, r.i + 1)

\* strip_buf working on a copy and writing it back only on success
strip_buf_transactional(state, buf) ==
    LET r == strip_buf_while(state, buf, 0)
    IN  IF r.ok THEN r ELSE [r EXCEPT !.buf = buf]

\* fn strip_buf(state: &mut State, buf: &mut [u8]) -> Result<()>
strip_buf(state, buf) == strip_buf_while(state, buf, 0)

\* ---------------------------------------------------------------- inputs
BytesUpTo(A, n) == UNION {[1..k -> A] : k \in 0..n}

\* every byte the scanner distinguishes
Alphabet == {QUOTE, BACKSLASH, SLASH, STAR, HASH, COMMA, RBRACKET, RBRACE,
             LF, CR, SPACE, LETTER}
\* commas, comments and brackets
CommentAlphabet == {COMMA, SLASH, STAR, RBRACKET, LF}
\* string literals holding comment and trailing-comma look-alikes
StringAlphabet == {QUOTE, BACKSLASH, SLASH, STAR, COMMA, RBRACKET}

\* inputs read through StripComments
Inputs == BytesUpTo(Alphabet, MaxLen)
            \cup BytesUpTo(CommentAlphabet, MaxCommentLen)
            \cup BytesUpTo(StringAlphabet, MaxStringLen)

\* inputs given to strip_comments_in_place
PlaceInputs == BytesUpTo(Alphabet, MaxPlaceLen)
                 \cup BytesUpTo(CommentAlphabet, MaxPlaceCommentLen)

\* inputs both read through StripComments and stripped in place
BothInputs == BytesUpTo(StringAlphabet, MaxBothLen)

\* ---------------------------------------------------------------- state
VARIABLES
    input,   \* the bytes of the inner reader / the original string
    pos,     \* how many bytes the inner reader has handed out
    state,   \* StripComments.state
    out,     \* the bytes the read calls have left in the caller's buffers
    res,     \* the result of the last read call
    s,       \* the string strip_comments_in_place works on
    sres,    \* the result of the last strip_comments_in_place call
    calls,   \* the number of strip_comments_in_place calls made on s
    inner,   \* what the last self.inner.read(buf) gave: "Ok" or an error kind
    buf,     \* strip_buf, one iteration at a time: its buffer
    i,       \* strip_buf: the scan index
    cur,     \* strip_buf: the index of the comma whose lookahead is running
    temp_state, \* strip_buf: the state the lookahead works on
    pc,      \* strip_buf: where the scan is: "idle", "strip_buf",
             \* "lookahead", "Ok", "Err" or "panic"
    steps,   \* how many times each byte of buf has been stepped
    settings, \* wasm strip: the _settings argument of the last call
    ret      \* wasm strip: the value the last call returned

\* the locals of a strip_buf call
scanvars == <<buf, i, cur, temp_state, pc, steps>>

\* the argument and the return value of the wasm strip
wasmvars == <<settings, ret>>

vars == <<input, pos, state, out, res, s, sres, calls, inner, scanvars,
          wasmvars>>

\* the std::io::ErrorKind values an inner reader's failure is drawn from
ErrorKinds == {"InvalidData", "Other"}

None == [tag |-> "None", n |-> 0, kind |-> "None"]
Ok(n) == [tag |-> "Ok", n |-> n, kind |-> "None"]
\* Err(e) for an error e of the given kind
Failure(kind) == [tag |-> "Err", n |-> 0, kind |-> kind]
\* Err(ErrorKind::InvalidData.into())
Err == Failure("InvalidData")

\* eof_allowed without the InLineComment exemption
eof_allowed_top_only(st) == ~(st # Top)

\* the end-of-input test of read: state is Top or InLineComment
eof_allowed(st) == ~(st # Top /\ st # InLineComment)

\* read scanning every chunk from Top instead of from the carried state
read_forgets_state(n) ==
    LET count == Min(n, Len(input) - pos)
        r == strip_buf(Top, SubSeq(input, pos + 1, pos + count))
    IN  /\ pos' = pos + count
        /\ IF count > 0
           THEN /\ state' = r.state
                /\ out' = out \o r.buf
                /\ res' = IF r.ok THEN Ok(count) ELSE Err
           ELSE /\ state' = state
                /\ out' = out
                /\ res' = IF eof_allowed(state) THEN Ok(count) ELSE Err
        /\ inner' = "Ok"
        /\ UNCHANGED <<input, s, sres, calls, scanvars, wasmvars>>

\* read returning the length of the destination buffer instead of count
read_returns_len(n) ==
    LET count == Min(n, Len(input) - pos)
        r == strip_buf(state, SubSeq(input, pos + 1, pos + count))
    IN  /\ pos' = pos + count
        /\ IF count > 0
           THEN /\ state' = r.state
                /\ out' = out \o r.buf
                /\ res' = IF r.ok THEN Ok(n) ELSE Err
           ELSE /\ state' = state
                /\ out' = out
                /\ res' = IF eof_allowed(state) THEN Ok(n) ELSE Err
        /\ inner' = "Ok"
        /\ UNCHANGED <<input, s, sres, calls, scanvars, wasmvars>>

\* <StripComments as Read>::read with a destination buffer of n bytes; the
\* inner reader is a byte slice and hands out min(n, remaining) bytes
read(n) ==
    LET count == Min(n, Len(input) - pos)
        r == strip_buf(state, SubSeq(input, pos + 1, pos + count))
    IN  /\ pos' = pos + count
        /\ IF count > 0
           THEN /\ state' = r.state
                /\ out' = out \o r.buf
                /\ res' = IF r.ok THEN Ok(count) ELSE Err
           ELSE /\ state' = state
                /\ out' = out
                /\ res' = IF eof_allowed(state) THEN Ok(count) ELSE Err
        /\ inner' = "Ok"
        /\ UNCHANGED <<input, s, sres, calls, scanvars, wasmvars>>

\* read turning every failure of the inner reader into InvalidData
read_inner_fails_as_invalid_data(kind) ==
    /\ inner' = kind
    /\ res' = Err
    /\ UNCHANGED <<input, pos, state, out, s, sres, calls, scanvars,
                 wasmvars>>

\* read when self.inner.read(buf) fails with an error of the given kind: the
\* `?` returns that error before anything else is touched
read_inner_fails(kind) ==
    /\ inner' = kind
    /\ res' = Failure(kind)
    /\ UNCHANGED <<input, pos, state, out, s, sres, calls, scanvars,
                 wasmvars>>

\* strip_comments_in_place applying the reader's end-of-input test
strip_comments_in_place_checks_eof ==
    LET r == strip_buf(Top, s)
    IN  /\ calls < MaxCalls
        /\ calls' = calls + 1
        /\ s' = r.buf
        /\ sres' = IF r.ok /\ eof_allowed(r.state) THEN Ok(0) ELSE Err
        /\ UNCHANGED <<input, pos, state, out, res, inner, scanvars,
                     wasmvars>>

\* strip_comments_in_place(s): strip_buf(&mut Top, s.as_bytes_mut())
strip_comments_in_place ==
    LET r == strip_buf(Top, s)
    IN  /\ calls < MaxCalls
        /\ calls' = calls + 1
        /\ s' = r.buf
        /\ sres' = IF r.ok THEN Ok(0) ELSE Err
        /\ UNCHANGED <<input, pos, state, out, res, inner, scanvars,
                     wasmvars>>

\* no strip_buf call is being followed step by step
NoScan ==
    /\ buf = <<>>
    /\ i = 0
    /\ cur = 0
    /\ temp_state = Top
    /\ pc = "idle"
    /\ steps = <<>>

\* a String returned by the wasm strip
String(bytes) == [tag |-> "String", val |-> bytes]

\* the wasm strip has not been called
NoWasm ==
    /\ settings = {}
    /\ ret = [tag |-> "None", val |-> <<>>]

\* StripComments::new(input)
Init ==
    /\ input \in Inputs
    /\ pos = 0
    /\ state = Top
    /\ out = <<>>
    /\ res = None
    /\ s = input
    /\ sres = None
    /\ calls = 0
    /\ inner = "None"
    /\ NoScan
    /\ NoWasm

Next == \E n \in 0..MaxBuf : read(n)

Spec == Init /\ [][Next]_vars

\* a String handed to strip_comments_in_place
InitInPlace ==
    /\ input \in PlaceInputs
    /\ pos = 0
    /\ state = Top
    /\ out = <<>>
    /\ res = None
    /\ s = input
    /\ sres = None
    /\ calls = 0
    /\ inner = "None"
    /\ NoScan
    /\ NoWasm

NextInPlace == strip_comments_in_place

SpecInPlace == InitInPlace /\ [][NextInPlace]_vars

\* a StripComments over an inner reader whose reads may fail
NextFailing ==
    \/ \E n \in 0..MaxBuf : read(n)
    \/ \E kind \in ErrorKinds : read_inner_fails(kind)

SpecFailing == Init /\ [][NextFailing]_vars

\* the same input read through StripComments and stripped in place
NextBoth ==
    \/ \E n \in 0..MaxBuf : read(n)
    \/ strip_comments_in_place

InitBoth ==
    /\ input \in BothInputs
    /\ pos = 0
    /\ state = Top
    /\ out = <<>>
    /\ res = None
    /\ s = input
    /\ sres = None
    /\ calls = 0
    /\ inner = "None"
    /\ NoScan
    /\ NoWasm

SpecBoth == InitBoth /\ [][NextBoth]_vars

\* ---------------------------------------------------------------- str
\* the characters of the strings: ASCII bytes the scanner acts on, and two
\* characters of more than one byte
Chars == {<<c>> : c \in {QUOTE, SLASH, STAR, HASH, COMMA, LF}}
           \cup {<<LEAD2, CONT>>, <<LEAD3, CONT2, CONT3>>}

\* the bytes of the strings of at most n characters
RECURSIVE StrUpTo(_)
StrUpTo(n) ==
    IF n = 0 THEN {<<>>}
    ELSE StrUpTo(n - 1) \cup {x \o ch : x \in StrUpTo(n - 1), ch \in Chars}

\* the &mut str values handed to strip_comments_in_place: valid UTF-8
StrInputs == StrUpTo(MaxChars)

\* a &mut str handed to strip_comments_in_place
InitStr ==
    /\ input \in StrInputs
    /\ pos = 0
    /\ state = Top
    /\ out = <<>>
    /\ res = None
    /\ s = input
    /\ sres = None
    /\ calls = 0
    /\ inner = "None"
    /\ NoScan
    /\ NoWasm

SpecStr == InitStr /\ [][NextInPlace]_vars

\* ---------------------------------------------------------------- wasm
\* the values of Option<bool>: None, Some(true), Some(false)
OptionBool == {{}, {TRUE}, {FALSE}}

\* struct CommentSettings
CommentSettings ==
    [block_comments : OptionBool, slash_line_comments : OptionBool,
     hash_line_comments : OptionBool, trailing_commas : OptionBool]

\* the values of Option<CommentSettings>: None is {}, Some(c) is {c}
OptionCommentSettings == {{}} \cup {{c} : c \in CommentSettings}

\* comment openers, commas and brackets
WasmAlphabet == {SLASH, STAR, HASH, COMMA, RBRACKET}

\* strings handed to the wasm strip
WasmInputs == BytesUpTo(WasmAlphabet, MaxWasmLen)

\* strip leaving the string as it is when every flag is Some(false)
strip_honours_settings(_settings) ==
    LET off == \E c \in _settings :
                   /\ c.block_comments = {FALSE}
                   /\ c.slash_line_comments = {FALSE}
                   /\ c.hash_line_comments = {FALSE}
                   /\ c.trailing_commas = {FALSE}
        r == IF off THEN [ok |-> TRUE, state |-> Top, buf |-> input]
             ELSE strip_buf(Top, input)
    IN  /\ settings' = _settings
        /\ s' = r.buf
        /\ sres' = IF r.ok THEN Ok(0) ELSE Err
        /\ calls' = 1
        /\ ret' = String(s')
        /\ UNCHANGED <<input, pos, state, out, res, inner, scanvars>>

\* strip handing the failure of strip_comments_in_place to its caller
strip_reports_failure(_settings) ==
    LET r == strip_buf(Top, input)
    IN  /\ settings' = _settings
        /\ s' = r.buf
        /\ sres' = IF r.ok THEN Ok(0) ELSE Err
        /\ calls' = 1
        /\ ret' = IF r.ok THEN String(s') ELSE [tag |-> "Err", val |-> <<>>]
        /\ UNCHANGED <<input, pos, state, out, res, inner, scanvars>>

\* wasm: pub fn strip(string: String, _settings: Option<CommentSettings>)
\* -> String.  s is the function's own `string`, a copy of the caller's
\* input; sres is the Result of strip_comments_in_place, bound to `_`.
strip(_settings) ==
    LET r == strip_buf(Top, input)
    IN  /\ settings' = _settings
        /\ s' = r.buf
        /\ sres' = IF r.ok THEN Ok(0) ELSE Err
        /\ calls' = 1
        /\ ret' = String(s')
        /\ UNCHANGED <<input, pos, state, out, res, inner, scanvars>>

\* a string about to be handed to the wasm strip
InitWasm ==
    /\ input \in WasmInputs
    /\ pos = 0
    /\ state = Top
    /\ out = <<>>
    /\ res = None
    /\ s = input
    /\ sres = None
    /\ calls = 0
    /\ inner = "None"
    /\ NoScan
    /\ NoWasm

NextWasm == \E _settings \in OptionCommentSettings : strip(_settings)

SpecWasm == InitWasm /\ [][NextWasm]_vars

\* ---------------------------------------------------------------- strip_buf, one loop iteration at a time
\* bytes of every kind the match arms distinguish
ScanAlphabet == {QUOTE, SLASH, STAR, HASH, COMMA, RBRACKET, LF, LETTER}

\* buffers handed to strip_buf
ScanInputs == BytesUpTo(ScanAlphabet, MaxScanLen)

\* the range check of a slice b[lo..hi], sl = <<lo, hi>>: lo <= hi <= len
SliceOk(b, sl) == 0 <= sl[1] /\ sl[1] <= sl[2] /\ sl[2] <= Len(b)

\* the slices one loop iteration in state st at index j takes of b: the
\* element b[j], and in the bulk skips the remainder b[j..] and the filled
\* range b[cur..=i], b[cur..i] or b[cur..len]
slices(st, b, j) ==
    LET len == Len(b)
        elem == {<<j, j + 1>>}
    IN  CASE st = InBlockComment ->
               LET r == consume_block_comments(b, j)
               IN  elem \cup {<<j, len>>,
                              <<j, IF r.state = MaybeCommentEnd
                                   THEN r.i + 1 ELSE len>>}
          [] st = InLineComment ->
               LET r == consume_line_comments(b, j)
               IN  elem \cup {<<j, len>>,
                              <<j, IF r.state = Top THEN r.i ELSE len>>}
          [] OTHER -> elem

\* the match arms strip_buf and the lookahead have in common (every state but
\* Top), applied at index j of b
arm(st, b, j) ==
    LET c == b[j + 1] IN
    CASE st = InString ->
           [ok |-> TRUE, state |-> in_string(c), buf |-> b, i |-> j]
      [] st = StringEscape ->
           [ok |-> TRUE, state |-> InString, buf |-> b, i |-> j]
      [] st = InComment ->
           LET r == in_comment(c)
           IN  [ok |-> r.ok, state |-> IF r.ok THEN r.state ELSE st,
                buf |-> [b EXCEPT ![j + 1] = r.c], i |-> j]
      [] st = InBlockComment ->
           LET r == consume_block_comments(b, j)
           IN  [ok |-> TRUE, state |-> r.state, buf |-> r.buf, i |-> r.i]
      [] st = MaybeCommentEnd ->
           LET r == maybe_comment_end(c)
           IN  [ok |-> TRUE, state |-> r.state,
                buf |-> [b EXCEPT ![j + 1] = r.c], i |-> j]
      [] st = InLineComment ->
           LET r == consume_line_comments(b, j)
           IN  [ok |-> TRUE, state |-> r.state, buf |-> r.buf, i |-> r.i]

\* steps with the bytes lo..=hi stepped once more
bump(lo, hi) ==
    [k \in 1..Len(steps) |->
        IF lo <= k - 1 /\ k - 1 <= hi THEN steps[k] + 1 ELSE steps[k]]

\* one iteration of the while loop of strip_buf; for a comma at Top it ends
\* with the `*i += 1` that opens the lookahead
strip_buf_step ==
    /\ pc = "strip_buf"
    /\ IF ~(i < Len(buf))
       THEN /\ pc' = "Ok"
            /\ UNCHANGED <<state, buf, i, cur, temp_state, steps>>
       ELSE IF \E sl \in slices(state, buf, i) : ~SliceOk(buf, sl)
       THEN /\ pc' = "panic"
            /\ UNCHANGED <<state, buf, i, cur, temp_state, steps>>
       ELSE IF state = Top
       THEN LET byte == buf[i + 1]
                new_state == top(byte)
            IN  /\ buf' = [buf EXCEPT ![i + 1] = new_state.c]
                /\ steps' = bump(i, i)
                /\ cur' = i
                /\ i' = i + 1
                /\ IF byte = COMMA
                   THEN /\ temp_state' = new_state.state
                        /\ pc' = "lookahead"
                        /\ state' = state
                   ELSE /\ state' = new_state.state
                        /\ UNCHANGED <<temp_state, pc>>
       ELSE LET r == arm(state, buf, i)
            IN  /\ buf' = r.buf
                /\ IF r.ok
                   THEN /\ state' = r.state
                        /\ i' = r.i + 1
                        /\ steps' = bump(i, r.i)
                        /\ pc' = pc
                   ELSE /\ pc' = "Err"
                        /\ steps' = bump(i, i)
                        /\ UNCHANGED <<state, i>>
                /\ UNCHANGED <<cur, temp_state>>
    /\ UNCHANGED <<input, pos, out, res, s, sres, calls, inner, wasmvars>>

\* the loop test of the lookahead with <= for <
lookahead_continues_inclusive(j, len) == j <= len

\* while *i < len
lookahead_continues(j, len) == j < len

\* strip_buf going on at the byte the lookahead stopped on
after_lookahead_same_byte(j) == j

\* the i += 1 that ends the iteration of strip_buf in which the lookahead ran
\* and left *i = j
after_lookahead(j) == j + 1

\* one iteration of the while loop of
\* consume_comment_whitespace_until_maybe_bracket; when the lookahead
\* returns, the rest of the iteration of strip_buf that called it
lookahead_step ==
    /\ pc = "lookahead"
    /\ IF ~lookahead_continues(i, Len(buf))
       THEN /\ state' = temp_state
            /\ i' = after_lookahead(i)
            /\ pc' = "strip_buf"
            /\ UNCHANGED <<buf, cur, temp_state, steps>>
       ELSE IF \E sl \in slices(temp_state, buf, i) : ~SliceOk(buf, sl)
       THEN /\ pc' = "panic"
            /\ UNCHANGED <<state, buf, i, cur, temp_state, steps>>
       ELSE IF temp_state = Top
       THEN LET t == top(buf[i + 1])
                b == [buf EXCEPT ![i + 1] = t.c]
            IN  /\ steps' = bump(i, i)
                /\ temp_state' = t.state
                /\ cur' = cur
                /\ IF is_ascii_whitespace(t.c)
                   THEN /\ buf' = b
                        /\ i' = i + 1
                        /\ UNCHANGED <<state, pc>>
                   ELSE /\ buf' = IF is_closing_bracket(t.c)
                                  THEN [b EXCEPT ![cur + 1] = SPACE]
                                  ELSE b
                        /\ state' = t.state
                        /\ i' = after_lookahead(i)
                        /\ pc' = "strip_buf"
       ELSE LET r == arm(temp_state, buf, i)
            IN  /\ buf' = r.buf
                /\ IF r.ok
                   THEN /\ temp_state' = r.state
                        /\ i' = r.i + 1
                        /\ steps' = bump(i, r.i)
                        /\ pc' = pc
                   ELSE /\ pc' = "Err"
                        /\ steps' = bump(i, i)
                        /\ UNCHANGED <<temp_state, i>>
                /\ UNCHANGED <<state, cur>>
    /\ UNCHANGED <<input, pos, out, res, s, sres, calls, inner, wasmvars>>

\* strip_buf called on a buffer with the caller's state anything
InitScan ==
    /\ input \in ScanInputs
    /\ pos = 0
    /\ state \in State
    /\ out = <<>>
    /\ res = None
    /\ s = input
    /\ sres = None
    /\ calls = 0
    /\ inner = "None"
    /\ buf = input
    /\ i = 0
    /\ cur = 0
    /\ temp_state = Top
    /\ pc = "strip_buf"
    /\ steps = [k \in 1..Len(input) |-> 0]
    /\ NoWasm

NextScan ==
    \/ strip_buf_step
    \/ lookahead_step

SpecScan == InitScan /\ [][NextScan]_vars

\* the loops are sequential code: an iteration that can run does run
SpecScanFair == SpecScan /\ WF_vars(NextScan)

\* ---------------------------------------------------------------- reference
\* The transition table the claims are stated against, one byte at a time;
\* "Error" is the lone-slash failure and absorbs.
RefStep(st, c) ==
    CASE st = Top ->
           IF c = QUOTE THEN InString
           ELSE IF c = SLASH THEN InComment
           ELSE IF c = HASH THEN InLineComment
           ELSE Top
      [] st = InString ->
           IF c = QUOTE THEN Top
           ELSE IF c = BACKSLASH THEN StringEscape
           ELSE InString
      [] st = StringEscape -> InString
      [] st = InComment ->
           IF c = STAR THEN InBlockComment
           ELSE IF c = SLASH THEN InLineComment
           ELSE "Error"
      [] st = InBlockComment ->
           IF c = STAR THEN MaybeCommentEnd ELSE InBlockComment
      [] st = MaybeCommentEnd ->
           IF c = SLASH THEN Top
           ELSE IF c = STAR THEN MaybeCommentEnd
           ELSE InBlockComment
      [] st = InLineComment -> IF c = LF THEN Top ELSE InLineComment
      [] OTHER -> "Error"

\* the table's state after the bytes, started in st
RECURSIVE RefRun(_, _)
RefRun(st, bytes) ==
    IF bytes = <<>> THEN st
    ELSE RefRun(RefStep(st, Head(bytes)), Tail(bytes))

\* the table's state in front of byte k (1-based) of a scan started in st
RefBefore(st, bytes, k) == RefRun(st, SubSeq(bytes, 1, k - 1))

\* byte k is string content: opening quote, body, escapes or closing quote
IsStringByte(st, bytes, k) ==
    \/ RefBefore(st, bytes, k) \in {InString, StringEscape}
    \/ RefBefore(st, bytes, k) = Top /\ bytes[k] = QUOTE

\* index of the first byte at or after j that is neither whitespace nor part
\* of a complete comment, the table being in st at j; 0 when there is none
RECURSIVE NextSignificant(_, _, _)
NextSignificant(bytes, j, st) ==
    IF j > Len(bytes) \/ st = "Error" THEN 0
    ELSE IF st = Top
         THEN IF bytes[j] \in {SLASH, HASH}
              THEN NextSignificant(bytes, j + 1, RefStep(Top, bytes[j]))
              ELSE IF bytes[j] \in {32, 9, 10, 12, 13}
                   THEN NextSignificant(bytes, j + 1, Top)
                   ELSE j
         ELSE NextSignificant(bytes, j + 1, RefStep(st, bytes[j]))

\* byte k is a comma met at Top in a scan started in Top
IsTopComma(bytes, k) == bytes[k] = COMMA /\ RefBefore(Top, bytes, k) = Top

\* the significant byte after the comma at k, 0 when there is none
AfterComma(bytes, k) == NextSignificant(bytes, k + 1, Top)

\* the comma at k is followed, modulo whitespace and comments, by } or ]
IsTrailingComma(bytes, k) ==
    /\ IsTopComma(bytes, k)
    /\ AfterComma(bytes, k) # 0
    /\ bytes[AfterComma(bytes, k)] \in {RBRACE, RBRACKET}

\* the comma at k is the byte an earlier comma's lookahead stopped on
FollowsComma(bytes, k) ==
    \E j \in 1..(k - 1) : IsTopComma(bytes, j) /\ AfterComma(bytes, j) = k

\* ---------------------------------------------------------------- claims

\* C1: in every read, whatever state it starts in, every byte of the chunk
\* that is string content (opening quote through closing quote) is left as
\* it was in the input.
StringBytesPreserved ==
    [][pos' > pos =>
          LET chunk == SubSeq(input, pos + 1, pos')
              o == SubSeq(out', pos + 1, pos')
          IN  \A k \in 1..Len(chunk) :
                  IsStringByte(state, chunk, k) => o[k] = chunk[k]]_vars

\* a string holding "//" went through unchanged, its last byte read alone
StringBytesPreservedWitness ==
    /\ Len(input) = 4
    /\ input = <<QUOTE, SLASH, SLASH, QUOTE>>
    /\ pos = 4
    /\ res = Ok(1)
    /\ out = input

\* C2: once the whole input has been read in chunks, the streamed output and
\* the final state equal those of one strip_buf call on the whole input.
StreamingEquivalence ==
    (pos = Len(input) /\ strip_buf(Top, input).ok) =>
        /\ out = strip_buf(Top, input).buf
        /\ state = strip_buf(Top, input).state

\* C3: once the whole input has been read in chunks, every trailing comma
\* (one not itself the stop byte of an earlier comma's lookahead) is a space
\* in the streamed output, wherever the chunk boundaries fell.
StreamedTrailingCommaBlanked ==
    (pos = Len(input) /\ strip_buf(Top, input).ok) =>
        \A k \in 1..Len(input) :
            (IsTrailingComma(input, k) /\ ~FollowsComma(input, k))
                => out[k] = SPACE

\* C4: after one strip_comments_in_place call, every comma met at Top and
\* followed only by whitespace and complete comments and then } or ] is a
\* space.
TrailingCommaBlanked ==
    (calls = 1 /\ sres.tag = "Ok") =>
        \A k \in 1..Len(input) : IsTrailingComma(input, k) => s[k] = SPACE

\* C5: after one strip_comments_in_place call, every \n and \r inside a block
\* comment is unchanged.
BlockCommentLineEndingsKept ==
    calls = 1 =>
        \A k \in 1..Len(input) :
            (/\ input[k] \in {LF, CR}
             /\ RefBefore(Top, input, k) \in {InBlockComment, MaybeCommentEnd})
                => s[k] = input[k]

\* C6: every read leaves as many bytes in the caller's buffers as the inner
\* reader handed out, and a successful read returns exactly that count.
LengthInvariance ==
    [][(pos' # pos \/ res' # res) =>
          /\ Len(out') = pos'
          /\ res'.tag = "Ok" => res'.n = pos' - pos]_vars

\* the whole input was read, part of it blanked, the last read non-empty
LengthInvarianceWitness ==
    /\ pos = Len(input)
    /\ res.tag = "Ok"
    /\ res.n > 0
    /\ res.n < pos
    /\ Len(out) = Len(input)
    /\ out # input

\* C7: a read for which the inner reader returns 0 bytes leaves the state
\* alone and returns Ok(0) in Top and InLineComment, InvalidData otherwise.
EndOfInputRule ==
    [][pos' = pos =>
          /\ state' = state
          /\ res' = IF state \in {Top, InLineComment} THEN Ok(0) ELSE Err]_vars

\* the input ended in "*" inside a block comment and the read at its end failed
EndOfInputRuleWitness ==
    /\ Len(input) > 0
    /\ pos = Len(input)
    /\ state = MaybeCommentEnd
    /\ res = Err

\* C8: a read of a non-empty chunk fails exactly when the transition table,
\* started in the read's start state, meets a byte other than * and / in
\* InComment.
InvalidDataIff ==
    [][pos' > pos =>
          (res'.tag = "Err"
              <=> RefRun(state, SubSeq(input, pos + 1, pos')) = "Error")]_vars

\* the lone slash was met by the trailing-comma lookahead
InvalidDataIffWitness ==
    /\ Len(input) = 3
    /\ input = <<COMMA, SLASH, LETTER>>
    /\ pos = 3
    /\ res = Err

\* C9: after one strip_comments_in_place call, a comma that follows another
\* comma (modulo whitespace and comments) and is itself trailing is a space.
ConsecutiveCommasIndependent ==
    (calls = 1 /\ sres.tag = "Ok") =>
        \A k \in 1..Len(input) :
            (/\ input[k] = COMMA
             /\ FollowsComma(input, k)
             /\ IsTrailingComma(input, k))
                => s[k] = SPACE

IsLineCommentStart(bytes, k) ==
    /\ RefBefore(Top, bytes, k) = Top
    /\ \/ bytes[k] = HASH
       \/ bytes[k] = SLASH /\ k < Len(bytes) /\ bytes[k + 1] = SLASH

\* index of the first \n after k, Len(bytes) + 1 when there is none
LineEnd(bytes, k) ==
    LET ends == {e \in (k + 1)..Len(bytes) : bytes[e] = LF}
    IN  IF ends = {} THEN Len(bytes) + 1
        ELSE CHOOSE e \in ends : \A m \in ends : e <= m

\* a block comment opens at byte k: /* met at Top
IsBlockCommentStart(bytes, k) ==
    /\ RefBefore(Top, bytes, k) = Top
    /\ bytes[k] = SLASH
    /\ k < Len(bytes)
    /\ bytes[k + 1] = STAR

\* index of the / of the first */ that follows the opener at k,
\* Len(bytes) + 1 when there is none
BlockEnd(bytes, k) ==
    LET ends == {e \in (k + 3)..Len(bytes) :
                     bytes[e - 1] = STAR /\ bytes[e] = SLASH}
    IN  IF ends = {} THEN Len(bytes) + 1
        ELSE CHOOSE e \in ends : \A m \in ends : e <= m

\* C11: after one strip_comments_in_place call, a \r that ends a line comment
\* together with the \n after it is unchanged, as is that \n.
LineCommentCRKept ==
    calls = 1 =>
        \A k \in 1..(Len(input) - 1) :
            (/\ input[k] = CR
             /\ input[k + 1] = LF
             /\ RefBefore(Top, input, k) = InLineComment)
                => s[k] = CR /\ s[k + 1] = LF

Idempotence ==
    [][(calls >= 1 /\ sres.tag = "Ok" /\ calls' = calls + 1) =>
          s' = s /\ sres' = Ok(0)]_vars

\* a second call was made on a string the first call had changed
IdempotenceWitness ==
    /\ calls = 2
    /\ sres = Ok(0)
    /\ s # input
    /\ \E k \in 1..Len(input) : IsTrailingComma(input, k) /\ s[k] = SPACE

\* C15: every byte the reads have left in the caller's buffers, after Ok and
\* after Err alike, is the input byte at the same index or a space.
OnlySpacesWritten ==
    \A k \in 1..Len(out) : out[k] = input[k] \/ out[k] = SPACE

\* a read failed on a lone slash after blanking it
OnlySpacesWrittenWitness ==
    /\ input = <<SLASH, LETTER>>
    /\ pos = 2
    /\ res = Err
    /\ out = <<SPACE, LETTER>>

\* no comma is met at Top
NoTopComma(bytes) == \A k \in 1..Len(bytes) : ~IsTopComma(bytes, k)

\* C16: a read whose chunk ends inside a string, an escape, a comment opener
\* or a block comment returns Ok and leaves the state the transition table
\* gives; and once an input without a comma at Top has been read, the bytes
\* handed out equal those of one scan of the whole input.
ChunkEndNotAnError ==
    [][pos' > pos =>
          LET chunk == SubSeq(input, pos + 1, pos')
              whole == strip_buf(Top, input)
          IN  /\ RefRun(state, chunk) \in
                     {InString, StringEscape, InComment, InBlockComment,
                      MaybeCommentEnd}
                   => res' = Ok(pos' - pos) /\ state' = RefRun(state, chunk)
              /\ (pos' = Len(input) /\ NoTopComma(input) /\ whole.ok)
                   => out' = whole.buf]_vars

\* "/*,*" read in pieces, the last of one byte: every read ended inside the
\* block comment, and all of it is blanked
ChunkEndNotAnErrorWitness ==
    /\ input = <<SLASH, STAR, COMMA, STAR>>
    /\ pos = 4
    /\ res = Ok(1)
    /\ state = MaybeCommentEnd
    /\ out = <<SPACE, SPACE, SPACE, SPACE>>

\* the number of consecutive backslashes that end at byte j
RECURSIVE BackslashRun(_, _)
BackslashRun(bytes, j) ==
    IF j >= 1 /\ bytes[j] = BACKSLASH THEN 1 + BackslashRun(bytes, j - 1)
    ELSE 0

\* C17: for an input that ends inside a string, an escape, a comment opener
\* or a block comment, the first strip_comments_in_place call returns Ok,
\* while a read made by StripComments at the end of that input fails with
\* InvalidData.
InPlaceSkipsEndCheck ==
    [][RefRun(Top, input) \in {InString, StringEscape, InComment,
                               InBlockComment, MaybeCommentEnd} =>
          /\ (calls = 0 /\ calls' = 1) => sres' = Ok(0)
          /\ (pos = Len(input) /\ inner' = "Ok" /\ res' # res) => res' = Err]_vars

\* "/*" was stripped in place without error and failed at its end in the reader
InPlaceSkipsEndCheckWitness ==
    /\ input = <<SLASH, STAR>>
    /\ calls = 1
    /\ sres = Ok(0)
    /\ s = <<SPACE, SPACE>>
    /\ pos = 2
    /\ res = Err
    /\ state = InBlockComment

\* C18: right after a byte inside a string has been handed out, the reader is
\* back in Top exactly when that byte is a quote preceded by an even number
\* of consecutive backslashes; otherwise it is still in the string, in
\* StringEscape exactly after a backslash preceded by an even number of them.
\* The byte itself is unchanged.
EscapeParity ==
    (pos >= 1 /\ RefBefore(Top, input, pos) \in {InString, StringEscape}) =>
        /\ out[pos] = input[pos]
        /\ state = IF input[pos] = QUOTE
                        /\ BackslashRun(input, pos - 1) % 2 = 0
                   THEN Top
                   ELSE IF BackslashRun(input, pos) % 2 = 1
                        THEN StringEscape
                        ELSE InString

\* "\"" inside a string did not close it, the next quote did
EscapeParityWitness ==
    /\ input = <<QUOTE, BACKSLASH, QUOTE, QUOTE>>
    /\ pos = 4
    /\ res = Ok(1)
    /\ state = Top
    /\ out = input

\* no / or # outside a string and no trailing comma
NothingToStrip(bytes) ==
    /\ \A k \in 1..Len(bytes) :
           bytes[k] \in {SLASH, HASH} => IsStringByte(Top, bytes, k)
    /\ \A k \in 1..Len(bytes) : ~IsTrailingComma(bytes, k)

\* C19: for an input with no / or # outside strings and no trailing comma,
\* every read of a non-empty chunk returns Ok and the bytes handed out are
\* the input's, unchanged.
NothingToStripUnchanged ==
    [][NothingToStrip(input) =>
          /\ out' = SubSeq(input, 1, pos')
          /\ pos' > pos => res' = Ok(pos' - pos)]_vars

\* "*\r\n" read to its end
NothingToStripUnchangedWitness ==
    /\ input = <<STAR, CR, LF>>
    /\ pos = 3
    /\ res = Ok(3)
    /\ out = input

\* C20 as stated: a read in which the inner reader fails returns an error of
\* kind InvalidData and leaves the state alone.
InnerFailureIsInvalidData ==
    [][inner' \in ErrorKinds =>
          res'.tag = "Err" /\ res'.kind = "InvalidData" /\ state' = state]_vars

\* C20 as amended: a read in which the inner reader fails returns the inner
\* reader's error, of whatever kind it is, and leaves the state, the position
\* and the bytes handed out alone.
InnerFailurePropagated ==
    [][inner' \in ErrorKinds =>
          /\ res' = Failure(inner')
          /\ state' = state
          /\ pos' = pos
          /\ out' = out]_vars

\* the inner reader failed with a kind other than InvalidData in mid-string
InnerFailurePropagatedWitness ==
    /\ inner = "Other"
    /\ res = Failure("Other")
    /\ state = InString
    /\ pos >= 1

\* C21: a read with a zero-length destination buffer returns Ok(0), in
\* whatever scanner state it is made.  Stated for reads made before the end
\* of the input, where a count of zero can only come from the zero-length
\* buffer and not from the inner reader being exhausted.
ZeroLengthReadOk ==
    [][(pos < Len(input) /\ read(0)) => res' = Ok(0)]_vars

\* index (1-based) of the byte on which a scan of bytes started in st fails,
\* 0 when it does not fail
FailAt(st, bytes) ==
    LET F == {k \in 1..Len(bytes) : RefRun(st, SubSeq(bytes, 1, k)) = "Error"}
    IN  IF F = {} THEN 0 ELSE CHOOSE k \in F : \A m \in F : k <= m

\* C22: when the scan of a chunk fails, the byte it fails on and every byte
\* after it are as in the input, the bytes before it are blanked as a scan
\* of those bytes alone blanks them, and the lone slash in front of the
\* failing byte is a space: nothing is rolled back.
NotTransactional ==
    [][(pos' > pos /\ res' = Err) =>
          LET chunk == SubSeq(input, pos + 1, pos')
              o == SubSeq(out', pos + 1, pos')
              f == FailAt(state, chunk)
          IN  /\ f # 0
              /\ \A k \in f..Len(chunk) : o[k] = chunk[k]
              /\ SubSeq(o, 1, f - 1)
                   = strip_buf(state, SubSeq(chunk, 1, f - 1)).buf
              /\ f > 1 => chunk[f - 1] = SLASH /\ o[f - 1] = SPACE]_vars

\* ",/a" failed in the lookahead of its comma: the slash stays blanked, the
\* comma and the letter are as they were
NotTransactionalWitness ==
    /\ input = <<COMMA, SLASH, LETTER>>
    /\ pos = 3
    /\ res = Err
    /\ out = <<COMMA, SPACE, LETTER>>

\* the settings with every flag Some(false)
AllOff ==
    {[block_comments |-> {FALSE}, slash_line_comments |-> {FALSE},
      hash_line_comments |-> {FALSE}, trailing_commas |-> {FALSE}]}

\* C23: a call of the wasm strip returns what the call before it, made on
\* the same input with whatever other settings, returned; and whatever the
\* settings, every comment opener outside a string and every trailing comma
\* is a space in the returned string.
SettingsIgnored ==
    [][ret'.tag = "String" =>
          /\ ret.tag = "String" => ret' = ret
          /\ \A k \in 1..Len(input) :
                 ((IsTrailingComma(input, k) /\ ~FollowsComma(input, k))
                  \/ (RefBefore(Top, input, k) = Top
                        /\ input[k] \in {SLASH, HASH}))
                     => ret'.val[k] = SPACE]_vars

\* "#," and ",]" came back blanked although every flag was Some(false)
SettingsIgnoredWitness ==
    /\ settings = AllOff
    /\ input \in {<<HASH, COMMA>>, <<COMMA, RBRACKET>>}
    /\ ret \in {String(<<SPACE, SPACE>>), String(<<SPACE, RBRACKET>>)}

\* C30: the wasm strip never reports failure: whatever a call returns is a
\* String, and when strip_comments_in_place failed inside it (its Result is
\* InvalidData) the String returned has the length of the input, with the
\* slash before the failing byte blanked and the bytes from the failing
\* byte on as they were.
FailureDiscarded ==
    ret.tag # "None" =>
        /\ ret.tag = "String"
        /\ sres = Err =>
             LET f == FailAt(Top, input)
             IN  /\ f > 1
                 /\ Len(ret.val) = Len(input)
                 /\ ret.val[f - 1] = SPACE
                 /\ \A k \in f..Len(input) : ret.val[k] = input[k]

\* "/," failed on its comma and came back as " ,"
FailureDiscardedWitness ==
    /\ input = <<SLASH, COMMA>>
    /\ sres = Err
    /\ ret = String(<<SPACE, COMMA>>)

\* what the scanner without the lookahead leaves of a byte c met in state st
PlainByte(st, c) ==
    CASE st = Top -> IF c \in {SLASH, HASH} THEN SPACE ELSE c
      [] st \in {InString, StringEscape} -> c
      [] st = InComment -> IF c \in {STAR, SLASH} THEN SPACE ELSE c
      [] st \in {InBlockComment, MaybeCommentEnd} -> SPACE
      [] st = InLineComment -> IF c = LF THEN c ELSE SPACE
      [] OTHER -> c

\* the bytes the scanner without the lookahead leaves, started in st: every
\* byte is stepped on its own and a comma is an ordinary byte
PlainScan(st, bytes) ==
    [k \in 1..Len(bytes) |-> PlainByte(RefBefore(st, bytes, k), bytes[k])]

\* the state the scanner without the lookahead returns with: the table's
\* state, and InComment when it failed
PlainState(st, bytes) ==
    IF FailAt(st, bytes) # 0 THEN InComment ELSE RefRun(st, bytes)

\* C24: for every chunk and start state, strip_buf fails exactly when the
\* scanner without the lookahead fails, returns with the same state, and
\* leaves the same bytes except where it blanked a comma met at Top.
LookaheadTransparent ==
    [][pos' > pos =>
          LET chunk == SubSeq(input, pos + 1, pos')
              o == SubSeq(out', pos + 1, pos')
          IN  /\ (res' = Err) <=> (FailAt(state, chunk) # 0)
              /\ state' = PlainState(state, chunk)
              /\ \A k \in 1..Len(chunk) :
                     \/ o[k] = PlainScan(state, chunk)[k]
                     \/ /\ chunk[k] = COMMA
                        /\ RefBefore(state, chunk, k) = Top
                        /\ o[k] = SPACE]_vars

\* C28: a read whose scan fails leaves the state InComment, and a read made
\* at the end of the input right after a failed read fails too.
ErrorStateIsInComment ==
    [][/\ (pos' > pos /\ res' = Err) => state' = InComment
       /\ (res = Err /\ pos = Len(input) /\ inner' = "Ok") => res' = Err]_vars

\* the state the running loop works on: temp_state inside the lookahead
Eff == IF pc = "lookahead" THEN temp_state ELSE state

\* index (0-based) of the first byte c of b at or after j, -1 when none
FirstAt(c, b, j) ==
    LET H == {k \in j..(Len(b) - 1) : b[k + 1] = c}
    IN  IF H = {} THEN -1 ELSE CHOOSE k \in H : \A m \in H : k <= m

\* C25: an iteration made in InBlockComment (InLineComment), by the main
\* loop or by the lookahead, leaves the scan on the first `*` (`\n`) at or
\* after the index in MaybeCommentEnd (Top), or on the last byte in the
\* same state when there is none; that is the state the transition table
\* reaches by stepping those bytes one at a time.
BulkSkipIsByteStepping ==
    [][(steps' # steps /\ Eff \in {InBlockComment, InLineComment}) =>
          LET block == Eff = InBlockComment
              hit == FirstAt(IF block THEN STAR ELSE LF, buf, i)
          IN  /\ i' - 1 = IF hit = -1 THEN Len(buf) - 1 ELSE hit
              /\ Eff' = IF hit = -1 THEN Eff
                        ELSE IF block THEN MaybeCommentEnd ELSE Top
              /\ Eff' = RefRun(Eff, SubSeq(buf, i + 1, i'))]_vars

\* a block comment entered before the buffer was skipped up to its `*`
BulkSkipIsByteSteppingWitness ==
    /\ input = <<LETTER, LETTER, STAR>>
    /\ pc = "strip_buf"
    /\ state = MaybeCommentEnd
    /\ i = 3
    /\ steps = <<1, 1, 1>>
    /\ buf = <<SPACE, SPACE, SPACE>>

\* C26: strip_buf returns on every buffer from every start state; every
\* iteration of the main loop and of the lookahead after which the scan
\* goes on has moved the index forward; and no byte is stepped twice, the
\* bytes the lookahead consumed included.
ScanTerminates ==
    /\ <>(pc \in {"Ok", "Err"})
    /\ [][pc' \in {"strip_buf", "lookahead"} => i' > i]_vars
    /\ [](\A k \in 1..Len(steps) : steps[k] <= 1)

\* ",\n]" was scanned to its end, each byte stepped once, the bracket by the
\* lookahead only
ScanTerminatesWitness ==
    /\ input = <<COMMA, LF, RBRACKET>>
    /\ pc = "Ok"
    /\ state = Top
    /\ buf = <<SPACE, LF, RBRACKET>>
    /\ steps = <<1, 1, 1>>

\* C27: no index or slice range falls outside the buffer: the scan never
\* panics, the element and the ranges the next iteration takes are within
\* 0..len, the comma a running lookahead may blank is a byte of the buffer,
\* and the index never passes len + 1.
NoPanic ==
    /\ pc # "panic"
    /\ i <= Len(buf) + 1
    /\ (pc \in {"strip_buf", "lookahead"} /\ i < Len(buf)) =>
           \A sl \in slices(Eff, buf, i) : SliceOk(buf, sl)
    /\ pc = "lookahead" => cur < Len(buf)

\* ",/*" ended inside a block comment opened during the lookahead of the
\* comma
NoPanicWitness ==
    /\ input = <<COMMA, SLASH, STAR>>
    /\ pc = "Ok"
    /\ state = InBlockComment
    /\ i = 4
    /\ buf = <<COMMA, SPACE, SPACE>>

\* byte c continues a multi-byte sequence
IsCont(c) == 128 <= c /\ c <= 191

\* how many continuation bytes follow the lead byte c; -1 when c cannot
\* start a sequence
ContCount(c) ==
    IF c < 128 THEN 0
    ELSE IF 194 <= c /\ c <= 223 THEN 1
    ELSE IF 224 <= c /\ c <= 239 THEN 2
    ELSE IF 240 <= c /\ c <= 244 THEN 3
    ELSE -1

\* the bytes from index j on are well-formed UTF-8
RECURSIVE Utf8From(_, _)
Utf8From(bytes, j) ==
    IF j > Len(bytes) THEN TRUE
    ELSE LET n == ContCount(bytes[j])
         IN  /\ n >= 0
             /\ j + n <= Len(bytes)
             /\ \A k \in (j + 1)..(j + n) : IsCont(bytes[k])
             /\ Utf8From(bytes, j + n + 1)

\* C29: after strip_comments_in_place, Ok or Err, the string is valid
\* UTF-8: of every multi-byte sequence of the input either all bytes are
\* blanked or none is changed, and none is changed inside a string.
Utf8Preserved ==
    calls >= 1 =>
        /\ Utf8From(s, 1)
        /\ \A j \in 1..Len(input) :
               ContCount(input[j]) > 0 =>
                   LET seq == j..(j + ContCount(input[j]))
                   IN  /\ \/ \A k \in seq : s[k] = SPACE
                          \/ \A k \in seq : s[k] = input[k]
                       /\ IsStringByte(Top, input, j) =>
                              \A k \in seq : s[k] = input[k]

\* a two-byte character right after the `*` of a block comment: its lead
\* byte was blanked by maybe_comment_end, its second byte by the bulk skip
Utf8PreservedWitness ==
    /\ input = <<SLASH, STAR, STAR, LEAD2, CONT>>
    /\ calls = 1
    /\ sres = Ok(0)
    /\ s = <<SPACE, SPACE, SPACE, SPACE, SPACE>>

====
